---- MODULE Spec2Model ----
(***************************************************************************)
(* Model of the two colour-series generators of src/index.ts.              *)
(*                                                                         *)
(* Variant A (lines 1-261) splits the tetrahedron of largest volume at its *)
(* centre; Variant B (lines 263-539) splits the longest edge at 0.55.      *)
(* Each generator owns its partition; the two run independently.           *)
(*                                                                         *)
(* Objects are modelled by heaps.  A Color object is an index into a heap  *)
(* of component triples, a Tetrahedron object an index into a heap of      *)
(* records [a, b, c, d] of Color indices, so that the == of the source     *)
(* (reference equality) is equality of indices, and two objects with the   *)
(* same components stay distinguishable.                                   *)
(*                                                                         *)
(* Components are exact rationals, stored as integer numerators over a     *)
(* fixed denominator (UnitA, UnitB); a factor is a fraction [num, den].    *)
(* IEEE-754 rounding is not modelled.  Within the bounds MaxPullsA and     *)
(* MaxPullsB (and one pull beyond) every component is a multiple of the    *)
(* unit, and the double-precision run of the source selects the same       *)
(* tetrahedron or edge as the exact run at every step.                     *)
(***************************************************************************)
EXTENDS Integers, Sequences, FiniteSets, TLC

VARIABLES
    colorsA,        \* A: heap of Color objects (component triples)
    tetsA,          \* A: heap of Tetrahedron objects
    tetrahedronsA,  \* A: the array `tetrahedrons` of makeColorSeries (object ids)
    yieldedA,       \* A: the Color object last yielded (0: none yet)
    numA,           \* A: `num`, the number of colours pulled by the consumer
    colorsB,        \* B: heap of Color objects
    tetsB,          \* B: heap of Tetrahedron objects
    tetrahedronsB,  \* B: the array `tetrahedrons` of makeColorSeries
    yieldedB,       \* B: the Color object last yielded (0: none yet)
    pcB,            \* B: number of seed `yield` statements already executed
    pullsB          \* B: iterations of the consumer's for-of loop so far

vars == << colorsA, tetsA, tetrahedronsA, yieldedA, numA,
           colorsB, tetsB, tetrahedronsB, yieldedB, pcB, pullsB >>

\* Bounds of the model: pulls taken from each generator.
MaxPullsA == 12
MaxPullsB == 41

\* Denominators of the components: 1 is UnitA (resp. UnitB).
UnitA == 20 * 4 * 4
UnitB == 20 * 20

---------------------------------------------------------------------------
\* Shared helpers

CornerNames == << "a", "b", "c", "d" >>

Abs(x) == IF x < 0 THEN -x ELSE x

\* Mutant: the index is counted from 1.
Mutant_indexOfOneBased(array, x) ==
    IF \E i \in 1..Len(array) : array[i] = x
    THEN CHOOSE i \in 1..Len(array) :
             array[i] = x /\ \A j \in 1..(i - 1) : array[j] # x
    ELSE -1

\* Array.prototype.indexOf: the first 0-based index holding x, or -1.
indexOf(array, x) ==
    IF \E i \in 1..Len(array) : array[i] = x
    THEN (CHOOSE i \in 1..Len(array) :
              array[i] = x /\ \A j \in 1..(i - 1) : array[j] # x) - 1
    ELSE -1

\* Mutant: the splice inserts the children and removes nothing.
Mutant_spliceKeepsParent(array, start, deleteCount, items) ==
    SubSeq(array, 1, start) \o items \o SubSeq(array, start + 1, Len(array))

\* Array.prototype.splice(start, deleteCount, ...items) on a copy of array.
splice(array, start, deleteCount, items) ==
    LET len  == Len(array)
        from == IF start < 0
                THEN (IF len + start < 0 THEN 0 ELSE len + start)
                ELSE (IF start > len THEN len ELSE start)
        cnt  == IF deleteCount < 0 THEN 0
                ELSE IF deleteCount > len - from THEN len - from
                ELSE deleteCount
    IN  SubSeq(array, 1, from) \o items \o SubSeq(array, from + cnt + 1, len)

\* Mutant: an element that the running maximum does not beat replaces it, so
\* the last of several equal maxima wins.
Mutant_findMaxLast(array, comparator) ==
    LET elements == {array[i] : i \in 1..Len(array)}
        loop[max \in elements, lo \in 1..Len(array), hi \in 1..Len(array)] ==
            IF lo = hi
            THEN (IF ~comparator[max, array[lo]] THEN array[lo] ELSE max)
            ELSE LET mid == (lo + hi) \div 2
                 IN  loop[loop[max, lo, mid], mid + 1, hi]
    IN  loop[array[1], 1, Len(array)]

\* comparator is the callback, a function of two elements of the array.
\* loop[max, lo, hi] is the value of `max` after the for-of loop, entered
\* with that value of max, has visited array[lo..hi].  A run over lo..hi is
\* the run over lo..mid followed by the run over mid+1..hi.
findMax(array, comparator) ==
    LET elements == {array[i] : i \in 1..Len(array)}
        loop[max \in elements, lo \in 1..Len(array), hi \in 1..Len(array)] ==
            IF lo = hi
            THEN (IF comparator[array[lo], max] THEN array[lo] ELSE max)
            ELSE LET mid == (lo + hi) \div 2
                 IN  loop[loop[max, lo, mid], mid + 1, hi]
    IN  loop[array[1], 1, Len(array)]

\* The loop over ["a", "b", "c", "d"], from position i on.
RECURSIVE nameOfCornerFrom(_, _, _)
nameOfCornerFrom(tetrahedron, point, i) ==
    IF i > Len(CornerNames) THEN "undefined"
    ELSE IF tetrahedron[CornerNames[i]] = point THEN CornerNames[i]
    ELSE nameOfCornerFrom(tetrahedron, point, i + 1)

\* Mutant: the loop leaves out the last role.
Mutant_nameOfCornerNoD(tetrahedron, point) ==
    IF tetrahedron.a = point THEN "a"
    ELSE IF tetrahedron.b = point THEN "b"
    ELSE IF tetrahedron.c = point THEN "c"
    ELSE "undefined"

nameOfCorner(tetrahedron, point) == nameOfCornerFrom(tetrahedron, point, 1)

\* copy[name] = point.  With name undefined the write creates a property
\* called "undefined" and leaves the four corners as they were.
setCorner(copy, name, point) ==
    IF name = "undefined" THEN copy ELSE [copy EXCEPT ![name] = point]

\* Color objects, in the order makeColorSeries creates them.
white   == 1
gray    == 2
black   == 3
red     == 4
magenta == 5
blue    == 6
cyan    == 7
green   == 8
yellow  == 9

\* The 12 tetrahedron literals of the seed array.
SeedTetrahedrons ==
    << [a |-> white, b |-> gray, c |-> red,     d |-> magenta],
       [a |-> white, b |-> gray, c |-> magenta, d |-> blue],
       [a |-> white, b |-> gray, c |-> blue,    d |-> cyan],
       [a |-> white, b |-> gray, c |-> cyan,    d |-> green],
       [a |-> white, b |-> gray, c |-> green,   d |-> yellow],
       [a |-> white, b |-> gray, c |-> yellow,  d |-> red],
       [a |-> black, b |-> gray, c |-> red,     d |-> magenta],
       [a |-> black, b |-> gray, c |-> magenta, d |-> blue],
       [a |-> black, b |-> gray, c |-> blue,    d |-> cyan],
       [a |-> black, b |-> gray, c |-> cyan,    d |-> green],
       [a |-> black, b |-> gray, c |-> green,   d |-> yellow],
       [a |-> black, b |-> gray, c |-> yellow,  d |-> red] >>

Color(r, g, b, unit) == [r |-> r * unit, g |-> g * unit, b |-> b * unit]

---------------------------------------------------------------------------
\* Variant A: largest volume

SeedColorsA ==
    << Color(1, 1, 1, UnitA),
       [r |-> (45 * UnitA) \div 100, g |-> (55 * UnitA) \div 100,
        b |-> (5 * UnitA) \div 10],
       Color(0, 0, 0, UnitA),
       Color(1, 0, 0, UnitA),
       Color(1, 0, 1, UnitA),
       Color(0, 0, 1, UnitA),
       Color(0, 1, 1, UnitA),
       Color(0, 1, 0, UnitA),
       Color(1, 1, 0, UnitA) >>

interpolateA(a, b, factor) ==
    LET factor2 == factor.den - factor.num
    IN  [r |-> (a.r * factor.num + b.r * factor2) \div factor.den,
         g |-> (a.g * factor.num + b.g * factor2) \div factor.den,
         b |-> (a.b * factor.num + b.b * factor2) \div factor.den]

centerPoint(colors, tetrahedron) ==
    LET center == [num |-> 1, den |-> 2]
        a == interpolateA(colors[tetrahedron.a], colors[tetrahedron.b], center)
        b == interpolateA(colors[tetrahedron.c], colors[tetrahedron.d], center)
    IN  interpolateA(a, b, center)

\* The new Color object is the next free slot of the heap.
splitTetrahedronA(colors, tetrahedron) ==
    LET newPoint == Len(colors) + 1
        a == setCorner(tetrahedron, nameOfCorner(tetrahedron, tetrahedron.a), newPoint)
        b == setCorner(tetrahedron, nameOfCorner(tetrahedron, tetrahedron.b), newPoint)
        c == setCorner(tetrahedron, nameOfCorner(tetrahedron, tetrahedron.c), newPoint)
        d == setCorner(tetrahedron, nameOfCorner(tetrahedron, tetrahedron.d), newPoint)
    IN  [colors          |-> Append(colors, centerPoint(colors, tetrahedron)),
         newTetrahedrons |-> << a, b, c, d >>,
         newPoint        |-> newPoint]

subColor(a, b) == [r |-> a.r - b.r, g |-> a.g - b.g, b |-> a.b - b.b]

colorDot(a, b) == a.r * b.r + a.g * b.g + a.b * b.b

colorCross(a, b) ==
    [r |-> a.g * b.b - a.b * b.g,
     g |-> a.b * b.r - a.r * b.b,
     b |-> a.r * b.g - a.g * b.r]

\* Six times the volume, in units of 1/unit^3: the division by 6 is left out
\* (it is monotonic, and the numerator need not be a multiple of 6).
tetrahedronVolume(colors, tetrahedron) ==
    LET A == subColor(colors[tetrahedron.a], colors[tetrahedron.d])
        B == subColor(colors[tetrahedron.b], colors[tetrahedron.d])
        C == subColor(colors[tetrahedron.c], colors[tetrahedron.d])
    IN  Abs(colorDot(A, colorCross(B, C)))

\* tetrahedrons holds object ids; the children are new objects of the heap.
addPointA(colors, tets, tetrahedrons) ==
    LET objects == 1..Len(tets)
        larger == [x \in objects, y \in objects |->
                      tetrahedronVolume(colors, tets[x])
                          > tetrahedronVolume(colors, tets[y])]
        largestTetrahedron == findMax(tetrahedrons, larger)
        split == splitTetrahedronA(colors, tets[largestTetrahedron])
        ids   == [i \in 1..Len(split.newTetrahedrons) |-> Len(tets) + i]
    IN  [colors          |-> split.colors,
         tets            |-> tets \o split.newTetrahedrons,
         newTetrahedrons |-> splice(tetrahedrons,
                                    indexOf(tetrahedrons, largestTetrahedron),
                                    1, ids),
         newPoint        |-> split.newPoint]

InitA ==
    /\ colorsA = SeedColorsA
    /\ tetsA = SeedTetrahedrons
    /\ tetrahedronsA = [i \in 1..Len(SeedTetrahedrons) |-> i]
    /\ yieldedA = 0
    /\ numA = 0

\* One iteration of the consumer's loop: the generator runs addPoint and
\* yields the new point, the consumer counts it.
PullA ==
    /\ numA < MaxPullsA
    /\ LET result == addPointA(colorsA, tetsA, tetrahedronsA)
       IN  /\ colorsA' = result.colors
           /\ tetsA' = result.tets
           /\ tetrahedronsA' = result.newTetrahedrons
           /\ yieldedA' = result.newPoint
    /\ numA' = numA + 1
    /\ UNCHANGED << colorsB, tetsB, tetrahedronsB, yieldedB, pcB, pullsB >>

---------------------------------------------------------------------------
\* Variant B: longest edge

SeedColorsB ==
    << Color(1, 1, 1, UnitB),
       [r |-> (5 * UnitB) \div 10, g |-> (5 * UnitB) \div 10,
        b |-> (5 * UnitB) \div 10],
       Color(0, 0, 0, UnitB),
       Color(1, 0, 0, UnitB),
       Color(1, 0, 1, UnitB),
       Color(0, 0, 1, UnitB),
       Color(0, 1, 1, UnitB),
       Color(0, 1, 0, UnitB),
       Color(1, 1, 0, UnitB) >>

\* Mutant: the commented-out yields of white, gray and black are live.
Mutant_SeedYieldsAll ==
    << white, gray, black, red, magenta, blue, cyan, green, yellow >>

\* The `yield` statements that precede the loop, in order.
SeedYieldsB == << red, magenta, blue, cyan, green, yellow >>

edgesInTetrahedron(tetrahedron) ==
    << [a |-> tetrahedron.a, b |-> tetrahedron.b],
       [a |-> tetrahedron.a, b |-> tetrahedron.c],
       [a |-> tetrahedron.a, b |-> tetrahedron.d],
       [a |-> tetrahedron.b, b |-> tetrahedron.c],
       [a |-> tetrahedron.b, b |-> tetrahedron.d],
       [a |-> tetrahedron.c, b |-> tetrahedron.d] >>

edgeLengthSquared(colors, edge) ==
    LET r == colors[edge.a].r - colors[edge.b].r
        g == colors[edge.a].g - colors[edge.b].g
        b == colors[edge.a].b - colors[edge.b].b
    IN  r * r + g * g + b * b

interpolateB(colors, edge, factor) ==
    LET factor2 == factor.den - factor.num
    IN  [r |-> (colors[edge.a].r * factor.num + colors[edge.b].r * factor2)
                   \div factor.den,
         g |-> (colors[edge.a].g * factor.num + colors[edge.b].g * factor2)
                   \div factor.den,
         b |-> (colors[edge.a].b * factor.num + colors[edge.b].b * factor2)
                   \div factor.den]

offCenterPoint(colors, edge) ==
    interpolateB(colors, edge, [num |-> 55, den |-> 100])

\* Mutant: the edges are compared in one orientation only.
Mutant_edgesEqualOrdered(a, b) == a.a = b.a /\ a.b = b.b

\* == on Color objects: the same object.
edgesEqual(a, b) == (a.a = b.a /\ a.b = b.b) \/ (a.a = b.b /\ a.b = b.a)

tetrahedronHasEdge(tetrahedron, edge) ==
    LET edges == edgesInTetrahedron(tetrahedron)
    IN  \E i \in 1..Len(edges) : edgesEqual(edges[i], edge)

\* Mutant: both copies have the corner at the edge's first endpoint replaced.
Mutant_splitTetrahedronSameCorner(colors, tetrahedron, edge, newPoint) ==
    LET create == newPoint = 0
        point  == IF create THEN Len(colors) + 1 ELSE newPoint
        a == setCorner(tetrahedron, nameOfCorner(tetrahedron, edge.a), point)
        b == setCorner(tetrahedron, nameOfCorner(tetrahedron, edge.a), point)
    IN  [colors   |-> IF create THEN Append(colors, offCenterPoint(colors, edge))
                      ELSE colors,
         newPoint |-> point,
         result   |-> << a, b >>]

\* Mutant: every call creates a split point of its own.
Mutant_splitTetrahedronFresh(colors, tetrahedron, edge, newPoint) ==
    LET point == Len(colors) + 1
        a == setCorner(tetrahedron, nameOfCorner(tetrahedron, edge.a), point)
        b == setCorner(tetrahedron, nameOfCorner(tetrahedron, edge.b), point)
    IN  [colors   |-> Append(colors, offCenterPoint(colors, edge)),
         newPoint |-> point,
         result   |-> << a, b >>]

\* newPoint is the holder's `point`: a Color object, or 0 while undefined.
splitTetrahedronB(colors, tetrahedron, edge, newPoint) ==
    LET create == newPoint = 0
        point  == IF create THEN Len(colors) + 1 ELSE newPoint
        a == setCorner(tetrahedron, nameOfCorner(tetrahedron, edge.a), point)
        b == setCorner(tetrahedron, nameOfCorner(tetrahedron, edge.b), point)
    IN  [colors   |-> IF create THEN Append(colors, offCenterPoint(colors, edge))
                      ELSE colors,
         newPoint |-> point,
         result   |-> << a, b >>]

\* affectedTetrahedrons.map(...).reduce(...): the state after the first i
\* affected tetrahedra have been split, the children concatenated so far.
splitEdge(colors, tets, edge, tetrahedrons) ==
    LET has(t) == tetrahedronHasEdge(tets[t], edge)
        hasNot(t) == ~tetrahedronHasEdge(tets[t], edge)
        affectedTetrahedrons == SelectSeq(tetrahedrons, has)
        unAffectedTetrahedrons == SelectSeq(tetrahedrons, hasNot)
        mapped[i \in 0..Len(affectedTetrahedrons)] ==
            IF i = 0
            THEN [colors |-> colors, tets |-> tets, newPoint |-> 0, soFar |-> << >>]
            ELSE LET prev  == mapped[i - 1]
                     split == splitTetrahedronB(prev.colors,
                                                tets[affectedTetrahedrons[i]],
                                                edge, prev.newPoint)
                     ids   == [j \in 1..Len(split.result) |-> Len(prev.tets) + j]
                 IN  [colors   |-> split.colors,
                      tets     |-> prev.tets \o split.result,
                      newPoint |-> split.newPoint,
                      soFar    |-> prev.soFar \o ids]
        final == mapped[Len(affectedTetrahedrons)]
    IN  [colors          |-> final.colors,
         tets            |-> final.tets,
         newTetrahedrons |-> unAffectedTetrahedrons \o final.soFar,
         newPoint        |-> final.newPoint]

\* tetrahedrons.map(edgesInTetrahedron).reduce(concat, []): the six edges of
\* the first tetrahedron, then those of the second, and so on.
allEdgesOf(tets, tetrahedrons) ==
    [k \in 1..(6 * Len(tetrahedrons)) |->
        edgesInTetrahedron(tets[tetrahedrons[((k - 1) \div 6) + 1]])[((k - 1) % 6) + 1]]

longestEdgeOf(colors, tets, tetrahedrons) ==
    LET allEdges == allEdgesOf(tets, tetrahedrons)
        edges    == {allEdges[i] : i \in 1..Len(allEdges)}
        longer   == [x \in edges, y \in edges |->
                        edgeLengthSquared(colors, x) > edgeLengthSquared(colors, y)]
    IN  findMax(allEdges, longer)

addPointB(colors, tets, tetrahedrons) ==
    splitEdge(colors, tets, longestEdgeOf(colors, tets, tetrahedrons), tetrahedrons)

InitB ==
    /\ colorsB = SeedColorsB
    /\ tetsB = SeedTetrahedrons
    /\ tetrahedronsB = [i \in 1..Len(SeedTetrahedrons) |-> i]
    /\ yieldedB = 0
    /\ pcB = 0
    /\ pullsB = 0

\* A pull that resumes the generator at one of the yields before the loop.
YieldSeedB ==
    /\ pullsB < MaxPullsB
    /\ pcB < Len(SeedYieldsB)
    /\ yieldedB' = SeedYieldsB[pcB + 1]
    /\ pcB' = pcB + 1
    /\ pullsB' = pullsB + 1
    /\ UNCHANGED << colorsB, tetsB, tetrahedronsB >>
    /\ UNCHANGED << colorsA, tetsA, tetrahedronsA, yieldedA, numA >>

\* A pull that runs one iteration of the generator's loop.
StepB ==
    /\ pullsB < MaxPullsB
    /\ pcB = Len(SeedYieldsB)
    /\ LET result == addPointB(colorsB, tetsB, tetrahedronsB)
       IN  /\ colorsB' = result.colors
           /\ tetsB' = result.tets
           /\ tetrahedronsB' = result.newTetrahedrons
           /\ yieldedB' = result.newPoint
    /\ pullsB' = pullsB + 1
    /\ UNCHANGED pcB
    /\ UNCHANGED << colorsA, tetsA, tetrahedronsA, yieldedA, numA >>

PullB == YieldSeedB \/ StepB

---------------------------------------------------------------------------

Init == InitA /\ InitB

Next == PullA \/ PullB

Spec == Init /\ [][Next]_vars

---------------------------------------------------------------------------
\* Vocabulary of the properties

\* The partition as the sequence of its tetrahedra (records of Color objects).
PartitionA == [i \in 1..Len(tetrahedronsA) |-> tetsA[tetrahedronsA[i]]]
PartitionB == [i \in 1..Len(tetrahedronsB) |-> tetsB[tetrahedronsB[i]]]

Range(seq) == {seq[i] : i \in 1..Len(seq)}

CornersOf(tetrahedron) ==
    {tetrahedron.a, tetrahedron.b, tetrahedron.c, tetrahedron.d}

\* The Color objects that are a corner of some tetrahedron of the partition.
CornersIn(partition) == UNION {CornersOf(partition[i]) : i \in 1..Len(partition)}

StepTakenA == numA' # numA
PulledB == pullsB' # pullsB

\* The pull ran one subdivision step and returned its split point: one Color
\* object was created, it is the one returned, it was no corner before, and
\* it is a corner of every tetrahedron that the step put into the partition.
FreshSplitPoint(colors, tets, tetrahedrons, colors2, tets2, tetrahedrons2, yielded) ==
    LET before == [i \in 1..Len(tetrahedrons) |-> tets[tetrahedrons[i]]]
        added  == Range(tetrahedrons2) \ Range(tetrahedrons)
    IN  /\ Len(colors2) = Len(colors) + 1
        /\ yielded = Len(colors2)
        /\ yielded \notin CornersIn(before)
        /\ added # {}
        /\ Range(tetrahedrons) \ Range(tetrahedrons2) # {}
        /\ \A t \in added : yielded \in CornersOf(tets2[t])

---------------------------------------------------------------------------
\* C1: Variant A holds 12 tetrahedra before the first pull and 3 more after
\* every pull: after n pulls the partition has exactly 12 + 3n tetrahedra.
C1_SizeA == Len(tetrahedronsA) = 12 + 3 * numA

C1_Witness == numA = 5 /\ Len(tetrahedronsA) = 27

\* C2 (as stated): in both variants every pull, the very first included,
\* runs exactly one subdivision step and returns the split point of that
\* step, a Color that was no corner before the pull and is a corner of the
\* replacement tetrahedra after it.
C2_EveryPullSplits ==
    [][ /\ StepTakenA =>
              FreshSplitPoint(colorsA, tetsA, tetrahedronsA,
                              colorsA', tetsA', tetrahedronsA', yieldedA')
        /\ PulledB =>
              FreshSplitPoint(colorsB, tetsB, tetrahedronsB,
                              colorsB', tetsB', tetrahedronsB', yieldedB')
      ]_vars

\* C2 (amended): every pull of Variant A, and every pull of Variant B after
\* its first six, runs exactly one subdivision step and returns its split
\* point; the first six pulls of Variant B return the seed corners red,
\* magenta, blue, cyan, green, yellow, in this order, and leave the
\* partition as it is.
C2_PullsAfterSeedSplit ==
    [][ /\ StepTakenA =>
              FreshSplitPoint(colorsA, tetsA, tetrahedronsA,
                              colorsA', tetsA', tetrahedronsA', yieldedA')
        /\ PulledB =>
              IF pullsB < 6
              THEN /\ yieldedB' = << red, magenta, blue, cyan, green, yellow >>[pullsB + 1]
                   /\ colorsB' = colorsB
                   /\ tetsB' = tetsB
                   /\ tetrahedronsB' = tetrahedronsB
              ELSE FreshSplitPoint(colorsB, tetsB, tetrahedronsB,
                                   colorsB', tetsB', tetrahedronsB', yieldedB')
      ]_vars

C2_Witness ==
    /\ numA >= 1 /\ yieldedA = Len(colorsA) /\ yieldedA > yellow
    /\ pullsB >= 7 /\ yieldedB = Len(colorsB) /\ yieldedB > yellow

---------------------------------------------------------------------------
\* Vocabulary of the Variant B properties

\* A pull of Variant B that ran the loop body (any pull after the sixth).
SplitTakenB == PulledB /\ pullsB >= 6

\* The edge the next step of Variant B selects.
SelectedEdgeB == longestEdgeOf(colorsB, tetsB, tetrahedronsB)

\* The six corner pairs of a tetrahedron, by role.
RolePairs ==
    { << "a", "b" >>, << "a", "c" >>, << "a", "d" >>,
      << "b", "c" >>, << "b", "d" >>, << "c", "d" >> }

\* Componentwise numeric equality of two Color objects.
SameComponents(colors, p, q) ==
    /\ colors[p].r = colors[q].r
    /\ colors[p].g = colors[q].g
    /\ colors[p].b = colors[q].b

\* The tetrahedron has an edge whose endpoints equal those of edge, in either
\* order, by their components.
HasEdgeByComponents(colors, tetrahedron, edge) ==
    \E pair \in RolePairs :
        LET p == tetrahedron[pair[1]]
            q == tetrahedron[pair[2]]
        IN  \/ SameComponents(colors, p, edge.a) /\ SameComponents(colors, q, edge.b)
            \/ SameComponents(colors, p, edge.b) /\ SameComponents(colors, q, edge.a)

\* The tetrahedron holds both endpoint objects of edge among its corners.
HoldsEndpoints(tetrahedron, edge) ==
    edge.a \in CornersOf(tetrahedron) /\ edge.b \in CornersOf(tetrahedron)

\* The two records agree in exactly three of the four corner roles.
DifferInOneCorner(t, u) ==
    Cardinality({i \in 1..4 : t[CornerNames[i]] # u[CornerNames[i]]}) = 1

\* C3: one step of Variant B maps the partition to
\* unaffected ++ children of the affected tetrahedra, where a tetrahedron is
\* affected iff it has an edge equal to the selected one as an unordered pair
\* of endpoints compared by their components; the unaffected tetrahedra stay
\* the same objects in the same relative order, every affected tetrahedron
\* yields 2 children, in the order of the affected tetrahedra, and the size
\* grows by the number k >= 1 of affected tetrahedra.
C3_StepB ==
    [][ SplitTakenB =>
          LET edge == SelectedEdgeB
              isAffected(t) == HasEdgeByComponents(colorsB, tetsB[t], edge)
              isUnaffected(t) == ~HasEdgeByComponents(colorsB, tetsB[t], edge)
              affected == SelectSeq(tetrahedronsB, isAffected)
              unaffected == SelectSeq(tetrahedronsB, isUnaffected)
              k == Len(affected)
              u == Len(unaffected)
          IN  /\ k >= 1
              /\ Len(tetrahedronsB') = Len(tetrahedronsB) + k
              /\ Len(tetrahedronsB') = u + 2 * k
              /\ SubSeq(tetrahedronsB', 1, u) = unaffected
              /\ \A j \in 1..u : tetsB'[unaffected[j]] = tetsB[unaffected[j]]
              /\ \A j \in 1..k : \A c \in {2 * j - 1, 2 * j} :
                    /\ tetrahedronsB'[u + c] \notin Range(tetrahedronsB)
                    /\ DifferInOneCorner(tetsB'[tetrahedronsB'[u + c]],
                                         tetsB[affected[j]])
              \* affected by components is affected by object identity
              /\ \A j \in 1..Len(tetrahedronsB) :
                    HasEdgeByComponents(colorsB, tetsB[tetrahedronsB[j]], edge)
                        <=> HoldsEndpoints(tetsB[tetrahedronsB[j]], edge)
      ]_vars

\* A step with six affected tetrahedra has just run.
C3_Witness ==
    /\ pullsB >= 7
    /\ Cardinality({i \in 1..Len(tetrahedronsB) :
                       yieldedB \in CornersOf(tetsB[tetrahedronsB[i]])}) = 12

\* C5: one step of Variant B creates the split point once; all 2k children
\* hold that one Color object; child 1 of an affected tetrahedron is the
\* parent with the corner identical to the edge's first endpoint replaced by
\* the split point, child 2 the parent with the corner identical to the
\* second endpoint replaced, all other corners being the parent's objects.
C5_SharedSplitPoint ==
    [][ SplitTakenB =>
          LET edge == SelectedEdgeB
              isAffected(t) == HoldsEndpoints(tetsB[t], edge)
              affected == SelectSeq(tetrahedronsB, isAffected)
              k == Len(affected)
              u == Len(tetrahedronsB) - k
              point == Len(colorsB) + 1
              replaced(parent, endpoint) ==
                  [name \in {"a", "b", "c", "d"} |->
                      IF parent[name] = endpoint THEN point ELSE parent[name]]
          IN  /\ colorsB' = Append(colorsB, colorsB'[point])
              /\ yieldedB' = point
              /\ Len(tetrahedronsB') = u + 2 * k
              /\ \A j \in 1..k :
                    LET parent == tetsB[affected[j]]
                        child1 == tetsB'[tetrahedronsB'[u + 2 * j - 1]]
                        child2 == tetsB'[tetrahedronsB'[u + 2 * j]]
                    IN  /\ child1 = replaced(parent, edge.a)
                        /\ child2 = replaced(parent, edge.b)
                        /\ point \in CornersOf(child1)
                        /\ point \in CornersOf(child2)
      ]_vars

C5_Witness ==
    /\ pullsB >= 7
    /\ yieldedB = Len(colorsB)
    /\ Cardinality({i \in 1..Len(tetrahedronsB) :
                       yieldedB \in CornersOf(tetsB[tetrahedronsB[i]])}) >= 4

---------------------------------------------------------------------------
\* C4 (as stated): in Variant B, at every step from the seed on, the maximal
\* squared edge length is attained by one edge only: all entries of the
\* flattened edge list of maximal squared length denote the same unordered
\* pair of endpoints.

\* The positions of the flattened edge list whose squared length is maximal.
LongestPositionsB ==
    LET allEdges == allEdgesOf(tetsB, tetrahedronsB)
        lengths  == [i \in 1..Len(allEdges) |-> edgeLengthSquared(colorsB, allEdges[i])]
        longest  == CHOOSE m \in Range(lengths) : \A x \in Range(lengths) : x <= m
    IN  {i \in 1..Len(allEdges) : lengths[i] = longest}

C4_UniqueLongestEdge ==
    LET allEdges == allEdgesOf(tetsB, tetrahedronsB)
    IN  \A i, j \in LongestPositionsB :
            {allEdges[i].a, allEdges[i].b} = {allEdges[j].a, allEdges[j].b}

\* C4 (amended): in Variant B the maximal squared edge length may be attained
\* by several different edges (six in the seed); every step splits the first
\* entry of the flattened edge list that has the maximal squared length: the
\* split point lies at 0.55 of its first plus 0.45 of its second endpoint,
\* and the tetrahedra retired are those holding both of its endpoints.
C4_FirstLongestEdgeSplit ==
    [][ SplitTakenB =>
          LET allEdges == allEdgesOf(tetsB, tetrahedronsB)
              first == CHOOSE i \in LongestPositionsB :
                           \A j \in LongestPositionsB : i <= j
              edge  == allEdges[first]
              from  == colorsB[edge.a]
              to    == colorsB[edge.b]
              point == colorsB'[yieldedB']
          IN  /\ 100 * point.r = 55 * from.r + 45 * to.r
              /\ 100 * point.g = 55 * from.g + 45 * to.g
              /\ 100 * point.b = 55 * from.b + 45 * to.b
              /\ Range(tetrahedronsB) \ Range(tetrahedronsB')
                     = {t \in Range(tetrahedronsB) : HoldsEndpoints(tetsB[t], edge)}
      ]_vars

\* The first step has run on the seed, where six edges are longest: it split
\* white-red, the first of them in the edge list.
C4_Witness ==
    /\ pullsB = 7
    /\ yieldedB = Len(SeedColorsB) + 1
    /\ colorsB[yieldedB] = [r |-> UnitB, g |-> (55 * UnitB) \div 100,
                            b |-> (55 * UnitB) \div 100]

---------------------------------------------------------------------------
\* Vocabulary of the Variant A properties

VolumesA ==
    [i \in 1..Len(tetrahedronsA) |->
        tetrahedronVolume(colorsA, tetsA[tetrahedronsA[i]])]

\* C6: Variant A splits the tetrahedron at the lowest index among those whose
\* volume is at least that of every other one (the first wins a tie), and
\* returns its centroid; so the first pull returns the centroid of the first
\* seed tetrahedron of maximal volume.
C6_FirstLargestSplit ==
    [][ StepTakenA =>
          LET first == CHOOSE i \in 1..Len(tetrahedronsA) :
                           /\ \A j \in 1..Len(tetrahedronsA) : VolumesA[j] <= VolumesA[i]
                           /\ \A j \in 1..(i - 1) : VolumesA[j] < VolumesA[i]
              parent == tetsA[tetrahedronsA[first]]
              point  == colorsA'[yieldedA']
              sum(component) ==
                  colorsA[parent.a][component] + colorsA[parent.b][component]
                      + colorsA[parent.c][component] + colorsA[parent.d][component]
          IN  /\ Range(tetrahedronsA) \ Range(tetrahedronsA') = {tetrahedronsA[first]}
              /\ 4 * point.r = sum("r")
              /\ 4 * point.g = sum("g")
              /\ 4 * point.b = sum("b")
      ]_vars

\* The first pull has run on the seed, where four tetrahedra share the
\* maximal volume: it returned the centroid of the first of them.
C6_Witness ==
    /\ numA = 1
    /\ tetrahedronsA[1] = Len(SeedTetrahedrons) + 1
    /\ colorsA[yieldedA] = [r |-> (69 * UnitA) \div 80, g |-> (31 * UnitA) \div 80,
                            b |-> (5 * UnitA) \div 8]

\* C7: if Variant A selects the tetrahedron at index i of partition P, the
\* next partition is P[0..i-1] ++ [childA, childB, childC, childD] ++ P[i+1..],
\* childX being the parent with exactly corner X replaced by the split point;
\* every other tetrahedron is the same object, unchanged, in the same order.
C7_ReplaceInPlace ==
    [][ StepTakenA =>
          LET n == Len(tetrahedronsA)
          IN  \E i \in 1..n :
                LET parent == tetsA[tetrahedronsA[i]]
                IN  /\ Len(tetrahedronsA') = n + 3
                    /\ SubSeq(tetrahedronsA', 1, i - 1) = SubSeq(tetrahedronsA, 1, i - 1)
                    /\ SubSeq(tetrahedronsA', i + 4, n + 3) = SubSeq(tetrahedronsA, i + 1, n)
                    /\ tetrahedronsA[i] \notin Range(tetrahedronsA')
                    /\ \A x \in 1..4 :
                          /\ tetrahedronsA'[i + x - 1] > Len(tetsA)
                          /\ tetsA'[tetrahedronsA'[i + x - 1]]
                                 = [parent EXCEPT ![CornerNames[x]] = yieldedA']
                    /\ yieldedA' \notin CornersOf(parent)
                    /\ \A t \in 1..Len(tetsA) : tetsA'[t] = tetsA[t]
      ]_vars

\* A tetrahedron in the middle of the partition has been replaced.
C7_Witness ==
    /\ numA >= 2
    /\ \E i \in 2..(Len(tetrahedronsA) - 4) :
          /\ tetrahedronsA[i - 1] <= Len(SeedTetrahedrons)
          /\ tetrahedronsA[i + 4] <= Len(SeedTetrahedrons)
          /\ \A x \in 0..3 : yieldedA \in CornersOf(tetsA[tetrahedronsA[i + x]])

---------------------------------------------------------------------------
\* C8: in every reachable state of either variant every corner lookup of the
\* next split finds the role it is asked for: every tetrahedron of a
\* partition has four pairwise distinct corners, so that looking up one of
\* its corners returns that corner's own role, and in Variant B every
\* tetrahedron that has the selected edge holds both of its endpoints.
DistinctCorners(tetrahedron) == Cardinality(CornersOf(tetrahedron)) = 4

FindsOwnRoles(tetrahedron) ==
    \A i \in 1..4 :
        nameOfCorner(tetrahedron, tetrahedron[CornerNames[i]]) = CornerNames[i]

C8_LookupsSucceed ==
    /\ \A i \in 1..Len(PartitionA) :
          DistinctCorners(PartitionA[i]) /\ FindsOwnRoles(PartitionA[i])
    /\ LET edge == SelectedEdgeB
           partition == PartitionB
       IN  \A i \in 1..Len(partition) :
             /\ DistinctCorners(partition[i])
             /\ tetrahedronHasEdge(partition[i], edge) =>
                   /\ nameOfCorner(partition[i], edge.a) # "undefined"
                   /\ nameOfCorner(partition[i], edge.b) # "undefined"
                   /\ partition[i][nameOfCorner(partition[i], edge.a)] = edge.a
                   /\ partition[i][nameOfCorner(partition[i], edge.b)] = edge.b

\* Both variants have split, and the edge Variant B splits next is held by
\* six tetrahedra.
C8_Witness ==
    /\ numA >= 1
    /\ pullsB >= 7
    /\ LET edge == SelectedEdgeB
           partition == PartitionB
       IN  Cardinality({i \in 1..Len(partition) :
                           tetrahedronHasEdge(partition[i], edge)}) = 6

---------------------------------------------------------------------------
\* C9: the 12 seed tetrahedra of Variant A, with gray at (0.45, 0.55, 0.5),
\* have pairwise different volumes.
C9_SeedVolumesDiffer ==
    numA = 0 =>
        \A i, j \in 1..Len(tetrahedronsA) : i # j => VolumesA[i] # VolumesA[j]

---------------------------------------------------------------------------
\* C10: in both variants the partition keeps covering the unit cube: a step
\* replaces each retired tetrahedron by children of non-zero volume whose
\* volumes sum to the volume of the retired one, and the volumes of all
\* tetrahedra of the partition sum to 1.  (Volumes are six-fold, in units.)
TotalVolume(colors, partition) ==
    LET sum[lo \in 1..Len(partition), hi \in 1..Len(partition)] ==
            IF lo = hi THEN tetrahedronVolume(colors, partition[lo])
            ELSE LET mid == (lo + hi) \div 2
                 IN  sum[lo, mid] + sum[mid + 1, hi]
    IN  sum[1, Len(partition)]

CubeVolume(unit) == 6 * unit * unit * unit

C10_VolumePreserved ==
    [][ /\ TotalVolume(colorsA, PartitionA) = CubeVolume(UnitA)
        /\ TotalVolume(colorsA', PartitionA') = CubeVolume(UnitA)
        /\ TotalVolume(colorsB, PartitionB) = CubeVolume(UnitB)
        /\ TotalVolume(colorsB', PartitionB') = CubeVolume(UnitB)
        /\ StepTakenA =>
              LET retired  == Range(tetrahedronsA) \ Range(tetrahedronsA')
                  children == [x \in 1..4 |->
                                  tetsA'[tetrahedronsA'[
                                      indexOf(tetrahedronsA', Len(tetsA) + 1) + x]]]
              IN  /\ Cardinality(retired) = 1
                  /\ \A x \in 1..4 : tetrahedronVolume(colorsA', children[x]) > 0
                  /\ \A t \in retired :
                        TotalVolume(colorsA', children)
                            = tetrahedronVolume(colorsA, tetsA[t])
        /\ SplitTakenB =>
              LET edge == SelectedEdgeB
                  isAffected(t) == HoldsEndpoints(tetsB[t], edge)
                  affected == SelectSeq(tetrahedronsB, isAffected)
                  k == Len(affected)
                  u == Len(tetrahedronsB) - k
              IN  \A j \in 1..k :
                    LET child1 == tetsB'[tetrahedronsB'[u + 2 * j - 1]]
                        child2 == tetsB'[tetrahedronsB'[u + 2 * j]]
                    IN  /\ tetrahedronVolume(colorsB', child1) > 0
                        /\ tetrahedronVolume(colorsB', child2) > 0
                        /\ tetrahedronVolume(colorsB', child1)
                               + tetrahedronVolume(colorsB', child2)
                               = tetrahedronVolume(colorsB, tetsB[affected[j]])
      ]_vars

C10_Witness ==
    /\ numA >= 2
    /\ pullsB >= 8
    /\ TotalVolume(colorsA, PartitionA) = CubeVolume(UnitA)
    /\ TotalVolume(colorsB, PartitionB) = CubeVolume(UnitB)
    /\ Len(PartitionA) > Len(SeedTetrahedrons)
    /\ Len(PartitionB) > Len(SeedTetrahedrons)

====
